---- MODULE Spec2Model ----
(***************************************************************************)
(* Model of app.py: a FastAPI service that extracts the video identifier   *)
(* from a YouTube URL, serves the transcript from a SQLite cache or        *)
(* fetches, formats, validates and stores it.                              *)
(*                                                                         *)
(* Python strings are TLA+ strings; Len, \o and SubSeq act on them.        *)
(* A Python call that may raise is modelled by a record                    *)
(*   [ok |-> TRUE, val |-> v]  or  [ok |-> FALSE, err |-> str(e)].         *)
(***************************************************************************)
EXTENDS Integers, Sequences, FiniteSets, TLC

(***************************************************************************)
(* String primitives used by the code (str methods of Python).             *)
(***************************************************************************)

\* s[i-1] of Python: the character at (1-based) position i
CharAt(s, i) == SubSeq(s, i, i)

\* s[i-1:] of Python: the suffix starting at position i
From(s, i) == SubSeq(s, i, Len(s))

\* s.startswith(p)
StartsWith(s, p) == Len(s) >= Len(p) /\ SubSeq(s, 1, Len(p)) = p

\* the least member of a non-empty set of positions, 0 for the empty set
First(P) == IF P = {} THEN 0 ELSE CHOOSE x \in P : \A y \in P : x <= y

\* s.find(p) + 1: position of the first occurrence of p in s, 0 if none
Find(s, p) ==
    First({i \in 1..(Len(s) - Len(p) + 1) : SubSeq(s, i, i + Len(p) - 1) = p})

RECURSIVE Split(_, _)
\* s.split(sep): the list of pieces between the occurrences of sep
Split(s, sep) ==
    LET i == Find(s, sep)
    IN  IF i = 0 THEN <<s>>
        ELSE <<SubSeq(s, 1, i - 1)>> \o Split(From(s, i + Len(sep)), sep)

\* s.lstrip(c) for a single character c: drops every leading c
LStrip(s, c) ==
    LET k == First({i \in 1..Len(s) : CharAt(s, i) # c})
    IN  IF k = 0 THEN "" ELSE From(s, k)

\* the lower-case letter of every upper-case letter
LOWER ==
    [A |-> "a", B |-> "b", C |-> "c", D |-> "d", E |-> "e", F |-> "f", G |-> "g",
     H |-> "h", I |-> "i", J |-> "j", K |-> "k", L |-> "l", M |-> "m", N |-> "n",
     O |-> "o", P |-> "p", Q |-> "q", R |-> "r", S |-> "s", T |-> "t", U |-> "u",
     V |-> "v", W |-> "w", X |-> "x", Y |-> "y", Z |-> "z"]

RECURSIVE Lower(_)
\* s.lower(): every upper-case letter replaced, from left to right
Lower(s) ==
    LET k == First({i \in 1..Len(s) : CharAt(s, i) \in DOMAIN LOWER})
    IN  IF k = 0 THEN s
        ELSE SubSeq(s, 1, k - 1) \o LOWER[CharAt(s, k)] \o Lower(From(s, k + 1))

RECURSIVE Replace(_, _, _)
\* s.replace(a, b) for single characters a, b
Replace(s, a, b) ==
    LET k == Find(s, a)
    IN  IF k = 0 THEN s
        ELSE SubSeq(s, 1, k - 1) \o b \o Replace(From(s, k + 1), a, b)

None == [none |-> TRUE]

Ok(v) == [ok |-> TRUE, val |-> v]
Raise(e) == [ok |-> FALSE, err |-> e]

(***************************************************************************)
(* urllib.parse.urlparse and parse_qs, as get_video_id uses them.          *)
(* The inputs are absolute http(s) URLs (VideoRequest.url is a HttpUrl),   *)
(* without percent escapes.                                                *)
(***************************************************************************)

\* s.partition(sep) without the separator: the parts before and after the
\* first occurrence of sep; all of s and "" when sep does not occur
Partition(s, sep) ==
    LET i == Find(s, sep)
    IN  IF i = 0 THEN <<s, "">> ELSE <<SubSeq(s, 1, i - 1), From(s, i + Len(sep))>>

\* the netloc ends at the first of '/', '?' and '#'
NetlocEnd(s) == First({i \in 1..Len(s) : CharAt(s, i) \in {"/", "?", "#"}})

\* .hostname of a parse result: netloc.rpartition('@')[2], up to the first
\* ':', lowered.  None when empty; "" stands for it here, no test of the code
\* tells the two apart
HostnameOf(netloc) ==
    LET parts == Split(netloc, "@")
    IN  Lower(Partition(parts[Len(parts)], ":")[1])

\* the last step of urlparse: the query is split off the path
UrlResult(scheme, netloc, pathquery, fragment) ==
    [scheme |-> scheme, netloc |-> netloc,
     path |-> Partition(pathquery, "?")[1], query |-> Partition(pathquery, "?")[2],
     fragment |-> fragment, hostname |-> HostnameOf(netloc)]

\* urlparse after the netloc: the fragment is split off
UrlTail(scheme, netloc, rest) ==
    UrlResult(scheme, netloc, Partition(rest, "#")[1], Partition(rest, "#")[2])

\* urlparse after "scheme://": the netloc is split off
UrlNetloc(scheme, rest, end) ==
    IF end = 0 THEN UrlTail(scheme, rest, "")
    ELSE UrlTail(scheme, SubSeq(rest, 1, end - 1), From(rest, end))

\* urlparse after the scheme
UrlAfterScheme(scheme, rest) ==
    IF StartsWith(rest, "//")
    THEN UrlNetloc(scheme, From(rest, 3), NetlocEnd(From(rest, 3)))
    ELSE UrlTail(scheme, "", rest)

\* urlparse(url): scheme, netloc, path, query, fragment and .hostname
urlparse(url) ==
    UrlAfterScheme(Lower(Partition(url, ":")[1]), Partition(url, ":")[2])

RECURSIVE parse_qsl(_)
\* the (name, value) pairs of a list of "name=value" fields; fields without
\* '=' and fields with a blank value are dropped (keep_blank_values=False)
parse_qsl(fields) ==
    IF fields = <<>> THEN <<>>
    ELSE LET f     == Head(fields)
             e     == Find(f, "=")
             name  == Replace(SubSeq(f, 1, e - 1), "+", " ")
             value == Replace(From(f, e + 1), "+", " ")
         IN  (IF e = 0 \/ Len(value) = 0 THEN <<>> ELSE << <<name, value>> >>)
             \o parse_qsl(Tail(fields))

\* parse_qs(query)[key]: the list of the values of key, in order of
\* appearance; the empty list stands for a KeyError
parse_qs(query, key) ==
    LET pairs == parse_qsl(Split(query, "&"))
    IN  SelectSeq(pairs, LAMBDA p : p[1] = key)

\* video_id_of with the wrong index into the split path
video_id_of_idx(parsed_url) ==
    IF parsed_url.hostname \in {"youtu.be", "www.youtu.be"}
    THEN Ok(LStrip(parsed_url.path, "/"))
    ELSE IF /\ parsed_url.hostname \in {"youtube.com", "www.youtube.com"}
            /\ parsed_url.path = "/watch"
    THEN LET vs == parse_qs(parsed_url.query, "v")
         IN  IF vs = <<>> THEN Raise("'v'") ELSE Ok(vs[1][2])
    ELSE IF /\ parsed_url.hostname \in {"youtube.com", "www.youtube.com"}
            /\ \/ StartsWith(parsed_url.path, "/embed/")
               \/ StartsWith(parsed_url.path, "/v/")
    THEN Ok(Split(parsed_url.path, "/")[2])
    ELSE Raise("Invalid YouTube URL")

\* video_id_of without the final raise: an unknown host is read as a short link
video_id_of_anyhost(parsed_url) ==
    IF /\ parsed_url.hostname \in {"youtube.com", "www.youtube.com"}
       /\ parsed_url.path = "/watch"
    THEN LET vs == parse_qs(parsed_url.query, "v")
         IN  IF vs = <<>> THEN Raise("'v'") ELSE Ok(vs[1][2])
    ELSE IF /\ parsed_url.hostname \in {"youtube.com", "www.youtube.com"}
            /\ \/ StartsWith(parsed_url.path, "/embed/")
               \/ StartsWith(parsed_url.path, "/v/")
    THEN Ok(Split(parsed_url.path, "/")[3])
    ELSE Ok(LStrip(parsed_url.path, "/"))

\* the body of get_video_id, given parsed_url = urlparse(youtube_url)
video_id_of(parsed_url) ==
    IF parsed_url.hostname \in {"youtu.be", "www.youtu.be"}
    THEN Ok(LStrip(parsed_url.path, "/"))
    ELSE IF /\ parsed_url.hostname \in {"youtube.com", "www.youtube.com"}
            /\ parsed_url.path = "/watch"
    THEN LET vs == parse_qs(parsed_url.query, "v")
         IN  IF vs = <<>> THEN Raise("'v'") ELSE Ok(vs[1][2])
    ELSE IF /\ parsed_url.hostname \in {"youtube.com", "www.youtube.com"}
            /\ \/ StartsWith(parsed_url.path, "/embed/")
               \/ StartsWith(parsed_url.path, "/v/")
    THEN Ok(Split(parsed_url.path, "/")[3])
    ELSE Raise("Invalid YouTube URL")

\* get_video_id(youtube_url)
get_video_id(youtube_url) == video_id_of(urlparse(youtube_url))

(***************************************************************************)
(* format_transcript_with_timestamps.  A caption fragment is a record     *)
(* [start, text]; start is held in milliseconds, so that a fractional      *)
(* number of seconds (a float in the code) stays an integer here.          *)
(***************************************************************************)

DIGITS == "0123456789"

RECURSIVE ToStr(_)
\* str(n) for a natural number n
ToStr(n) ==
    IF n < 10 THEN CharAt(DIGITS, n + 1)
    ELSE ToStr(n \div 10) \o CharAt(DIGITS, (n % 10) + 1)

\* f"{n:02}": decimal, zero-padded to at least two digits
Pad2(n) == IF n < 10 THEN "0" \o ToStr(n) ELSE ToStr(n)

\* one line of the formatted transcript with the hours as a time of day
format_entry_wrap(entry) ==
    LET start_time == entry.start
        text       == entry.text
        hours      == (start_time \div 3600000) % 24
        remainder  == start_time % 3600000
        minutes    == remainder \div 60000
        seconds    == (remainder % 60000) \div 1000
        timestamp  == Pad2(hours) \o ":" \o Pad2(minutes) \o ":" \o Pad2(seconds)
    IN  "[" \o timestamp \o "] " \o text

\* one line of the formatted transcript
format_entry(entry) ==
    LET start_time == entry.start
        text       == entry.text
        hours      == start_time \div 3600000
        remainder  == start_time % 3600000
        minutes    == remainder \div 60000
        seconds    == (remainder % 60000) \div 1000
        timestamp  == Pad2(hours) \o ":" \o Pad2(minutes) \o ":" \o Pad2(seconds)
    IN  "[" \o timestamp \o "] " \o text

RECURSIVE Join(_, _)
\* sep.join(lines)
Join(sep, lines) ==
    IF lines = <<>> THEN ""
    ELSE IF Len(lines) = 1 THEN lines[1]
    ELSE lines[1] \o sep \o Join(sep, Tail(lines))

\* format_transcript_with_timestamps(transcript)
format_transcript_with_timestamps(transcript) ==
    LET formatted_transcript == [i \in 1..Len(transcript) |-> format_entry(transcript[i])]
    IN  Join("\n", formatted_transcript)

(***************************************************************************)
(* get_video_description.  config is the mapping loaded from .env; the     *)
(* reply of the YouTube Data API is chosen by the environment: either      *)
(* requests.get raises, or it returns a response with a status code and    *)
(* a JSON body.                                                            *)
(***************************************************************************)

\* minimum length the API key must exceed
MIN_KEY_LEN == 10

\* the exception requests.get raises when the remote call fails
ConnectionError == [raises |-> "ConnectionError"]

\* get_video_description(video_id), given the reply of the remote call
get_video_description(video_id, cfg, reply) ==
    IF ~ ("YOUTUBE_KEY" \in DOMAIN cfg /\ Len(cfg["YOUTUBE_KEY"]) > MIN_KEY_LEN)
    THEN Ok([title |-> "not available", description |-> "not available"])
    ELSE IF reply = ConnectionError
    THEN Raise(reply.raises)
    ELSE IF reply.status_code = 200 /\ Len(reply.items) > 0
    THEN Ok([title       |-> reply.items[1].snippet.title,
             description |-> reply.items[1].snippet.description])
    ELSE Ok([title |-> "NaN", description |-> "NaN"])

WHITESPACE == " \t\n\r"

\* s.rstrip()
RStrip(s) ==
    LET P == {i \in 1..Len(s) : Find(WHITESPACE, CharAt(s, i)) = 0}
    IN  IF P = {} THEN "" ELSE SubSeq(s, 1, CHOOSE x \in P : \A y \in P : y <= x)

\* s.lstrip()
LStripWs(s) ==
    LET k == First({i \in 1..Len(s) : Find(WHITESPACE, CharAt(s, i)) = 0})
    IN  IF k = 0 THEN "" ELSE From(s, k)

\* s.strip()
Strip(s) == RStrip(LStripWs(s))

(***************************************************************************)
(* The videos table: a set of rows.  id is the AUTOINCREMENT primary key,  *)
(* video_id carries the UNIQUE constraint.                                 *)
(***************************************************************************)

\* init_db that creates the table anew
init_db_anew(tables) == [videos |-> {}]

\* init_db(): CREATE TABLE IF NOT EXISTS videos (...) on the tables of the
\* database file; a table that exists is left as it is
init_db(tables) ==
    IF "videos" \in DOMAIN tables THEN tables ELSE [videos |-> {}]

\* the count taken as the largest id of the table
count_videos_maxid(rows) ==
    IF rows = {} THEN 0 ELSE (CHOOSE r \in rows : \A o \in rows : o.id <= r.id).id

\* SELECT COUNT(*) FROM videos, fetchone()[0]
count_videos(rows) == Cardinality(rows)

\* SELECT video_id FROM videos, [row[0] for row in fetchall()]: the rows in
\* the order of their id
select_video_ids(rows) ==
    [i \in 1..Cardinality(rows) |->
        (CHOOSE r \in rows : Cardinality({o \in rows : o.id < r.id}) = i - 1).video_id]

\* insert_video_data as a plain INSERT into a table without the UNIQUE
\* constraint: nothing is replaced
insert_video_data_plain(rows, lastid, at, vid, u, title, description, transcript) ==
    LET row == [id |-> lastid + 1, video_id |-> vid, url |-> u, title |-> title,
                description |-> description, transcript |-> transcript,
                processed_at |-> at]
    IN  Ok([rows |-> rows \cup {row}, lastid |-> lastid + 1])

\* insert_video_data as a plain INSERT: a conflict on the UNIQUE column raises
insert_video_data_abort(rows, lastid, at, vid, u, title, description, transcript) ==
    LET row == [id |-> lastid + 1, video_id |-> vid, url |-> u, title |-> title,
                description |-> description, transcript |-> transcript,
                processed_at |-> at]
    IN  IF \E r \in rows : r.video_id = vid
        THEN Raise("UNIQUE constraint failed: videos.video_id")
        ELSE Ok([rows |-> rows \cup {row}, lastid |-> lastid + 1])

\* insert_video_data that empties the table before it inserts
insert_video_data_truncate(rows, lastid, at, vid, u, title, description, transcript) ==
    LET kept == {}
        row  == [id |-> lastid + 1, video_id |-> vid, url |-> u, title |-> title,
                 description |-> description, transcript |-> transcript,
                 processed_at |-> at]
    IN  Ok([rows |-> kept \cup {row}, lastid |-> lastid + 1])

\* insert_video_data with description and transcript in each other's place
insert_video_data_swapped(rows, lastid, at, vid, u, title, description, transcript) ==
    LET kept == {r \in rows : r.video_id # vid}
        row  == [id |-> lastid + 1, video_id |-> vid, url |-> u, title |-> title,
                 description |-> transcript, transcript |-> description,
                 processed_at |-> at]
    IN  Ok([rows |-> kept \cup {row}, lastid |-> lastid + 1])

\* insert_video_data that stores the identifier in the url column
insert_video_data_urlid(rows, lastid, at, vid, u, title, description, transcript) ==
    LET kept == {r \in rows : r.video_id # vid}
        row  == [id |-> lastid + 1, video_id |-> vid, url |-> vid, title |-> title,
                 description |-> description, transcript |-> transcript,
                 processed_at |-> at]
    IN  Ok([rows |-> kept \cup {row}, lastid |-> lastid + 1])

\* INSERT OR REPLACE INTO videos (...) VALUES (...): rows that conflict on
\* the UNIQUE column are deleted, then the new row gets the next id
insert_video_data(rows, lastid, at, vid, u, title, description, transcript) ==
    LET kept == {r \in rows : r.video_id # vid}
        row  == [id |-> lastid + 1, video_id |-> vid, url |-> u, title |-> title,
                 description |-> description, transcript |-> transcript,
                 processed_at |-> at]
    IN  Ok([rows |-> kept \cup {row}, lastid |-> lastid + 1])

\* get_video_from_db that reads the wrong column of the result
get_video_from_db_wrongcol(rows, vid) ==
    LET found == {r \in rows : r.video_id = vid}
    IN  IF found = {} THEN None
        ELSE LET result == CHOOSE r \in found : \A o \in found : r.id <= o.id
             IN  [title |-> result.title, description |-> result.description,
                  transcript |-> result.description]

\* get_video_from_db without the WHERE clause: the first row of the table
get_video_from_db_nowhere(rows, vid) ==
    LET found == rows
    IN  IF found = {} THEN None
        ELSE LET result == CHOOSE r \in found : \A o \in found : r.id <= o.id
             IN  [title |-> result.title, description |-> result.description,
                  transcript |-> result.transcript]

\* get_video_from_db(video_id): SELECT ... WHERE video_id = ?, fetchone()
get_video_from_db(rows, vid) ==
    LET found == {r \in rows : r.video_id = vid}
    IN  IF found = {} THEN None
        ELSE LET result == CHOOSE r \in found : \A o \in found : r.id <= o.id
             IN  [title |-> result.title, description |-> result.description,
                  transcript |-> result.transcript]

(***************************************************************************)
(* The requests the model submits and the replies of the two remote        *)
(* services.                                                               *)
(***************************************************************************)

\* number of requests submitted in one behaviour
MaxRequests == 2

\* the worker processes serving requests (uvicorn workers)
Workers == {"w1", "w2"}

\* threshold of the length check of get_transcript
MIN_LENGTH == 500

END_MARKER == "END_OF_TRANSCRIPT"

RECURSIVE Rep(_, _)
\* c * n of Python
Rep(c, n) ==
    IF n = 0 THEN ""
    ELSE LET half == Rep(c, n \div 2)
         IN  IF n % 2 = 0 THEN half \o half ELSE half \o half \o c

\* the URLs submitted to POST /get_transcript/
ReqURLs ==
    { "https://youtu.be/abc123",
      "https://www.youtube.com/watch?v=abc123",
      "https://www.youtube.com/embed/aQ4yQXeB1Ss",
      "https://vimeo.com/abc123" }

\* caption sequences the transcript service may return: none, one of exactly
\* MIN_LENGTH formatted characters, one of MIN_LENGTH + 1, and a longer one
\* of two fragments
Captions ==
    { <<>>,
      << [start |-> 0, text |-> Rep("a", MIN_LENGTH - 11)] >>,
      << [start |-> 1500, text |-> Rep("a", MIN_LENGTH - 10)] >>,
      << [start |-> 0, text |-> "Hello"],
         [start |-> 3725250, text |-> Rep("b", MIN_LENGTH)] >> }

\* outcomes of YouTubeTranscriptApi.get_transcript
TranscriptReplies == {Raise("TranscriptsDisabled")} \cup {Ok(t) : t \in Captions}

\* the mappings .env may give
Configs ==
    { [k \in {} |-> ""],
      [YOUTUBE_KEY |-> "0123456789"],
      [YOUTUBE_KEY |-> "0123456789A"] }

\* outcomes of requests.get on the YouTube Data API
MetaReplies ==
    { ConnectionError,
      [status_code |-> 403, items |-> <<>>],
      [status_code |-> 200, items |-> <<>>],
      [status_code |-> 200,
       items |-> << [snippet |-> [title |-> " A Title ", description |-> "About"]] >>] }

\* the length check with < in place of <=
too_short_lt(formatted_transcript) == Len(formatted_transcript) < MIN_LENGTH

\* the length check left out
too_short_off(formatted_transcript) == FALSE

\* the length check of get_transcript: len(formatted_transcript) <= 500
too_short(formatted_transcript) == Len(formatted_transcript) <= MIN_LENGTH

\* the HTTP responses of the handler
Http200(text) == [status |-> 200, transcript |-> text]
\* the 500 response without the text of the exception
Http500_nodetail(e) == [status |-> 500, detail |-> "Failed to obtain transcript"]

\* HTTPException(status_code=500, detail=f"Failed to obtain transcript: {str(e)}")
Http500(e) == [status |-> 500, detail |-> "Failed to obtain transcript: " \o e]

\* DatabaseStatus(total_videos=..., video_ids=...)
DatabaseStatus(n, ids) == [status |-> 200, total_videos |-> n, video_ids |-> ids]

NoResponse == [status |-> 0]
NoMeta == [title |-> "", description |-> ""]

(***************************************************************************)
(* State.                                                                  *)
(***************************************************************************)
VARIABLES
    config,      \* the mapping loaded from .env at start
    db,          \* rows of table videos
    lastid,      \* sqlite_sequence of table videos
    now,         \* the clock datetime.now() reads
    started,     \* number of requests submitted so far
    pc,          \* per worker: the step its request is at
    url,         \* per worker: str(request.url)
    video_id,    \* per worker: local video_id
    transcript,  \* per worker: local transcript (the caption fragments)
    metainfo,    \* per worker: local metainfo
    output,      \* per worker: local output
    total_videos,\* per worker: local total_videos of get_database_status
    response,    \* per worker: the response of its last request
    steps,       \* per worker: the steps its request has run, in order
    written,     \* per video_id: the arguments of the last insert_video_data
    log,         \* the successful responses sent so far
    restarts,    \* number of restarts of the service so far
    call         \* a call of a pure function under test, with its result

vars == <<config, db, lastid, now, started, pc, url, video_id, transcript,
          metainfo, output, total_videos, response, steps, written, log,
          restarts, call>>

locals == <<url, video_id, transcript, metainfo, output, total_videos>>
store == <<db, lastid, now, written>>
env == <<config, call, restarts>>

NoCall == [fn |-> "none"]

\* the entry of the log for the response text that worker w sends after
\* running the steps done
LogEntry(w, text, done) ==
    [url |-> url[w], video_id |-> video_id[w], text |-> text, steps |-> done]

InitHandler ==
    /\ config \in Configs
    /\ db = init_db(<<>>).videos
    /\ lastid = 0
    /\ now = 0
    /\ started = 0
    /\ pc = [w \in Workers |-> "idle"]
    /\ url = [w \in Workers |-> ""]
    /\ video_id = [w \in Workers |-> ""]
    /\ transcript = [w \in Workers |-> <<>>]
    /\ metainfo = [w \in Workers |-> NoMeta]
    /\ output = [w \in Workers |-> ""]
    /\ total_videos = [w \in Workers |-> 0]
    /\ response = [w \in Workers |-> NoResponse]
    /\ steps = [w \in Workers |-> <<>>]
    /\ written = <<>>
    /\ log = {}
    /\ restarts = 0

Init == InitHandler /\ call = NoCall

\* the except clause of get_transcript: the request ends with a 500
Fail(w, e) ==
    /\ pc' = [pc EXCEPT ![w] = "done"]
    /\ response' = [response EXCEPT ![w] = Http500(e)]

\* POST /get_transcript/ with body {"url": u} arrives at worker w, whose
\* previous request (if any) has returned; the locals of the new call are unset
Receive(w, u) ==
    /\ pc[w] \in {"idle", "done"}
    /\ started < MaxRequests
    /\ started' = started + 1
    /\ pc' = [pc EXCEPT ![w] = "ExtractId"]
    /\ url' = [url EXCEPT ![w] = u]
    /\ video_id' = [video_id EXCEPT ![w] = ""]
    /\ transcript' = [transcript EXCEPT ![w] = <<>>]
    /\ metainfo' = [metainfo EXCEPT ![w] = NoMeta]
    /\ output' = [output EXCEPT ![w] = ""]
    /\ total_videos' = [total_videos EXCEPT ![w] = 0]
    /\ response' = [response EXCEPT ![w] = NoResponse]
    /\ steps' = [steps EXCEPT ![w] = <<>>]
    /\ UNCHANGED <<env, store, log>>

\* video_id = get_video_id(str(request.url))
ExtractId(w) ==
    /\ pc[w] = "ExtractId"
    /\ steps' = [steps EXCEPT ![w] = @ \o <<"ExtractId">>]
    /\ LET r == get_video_id(url[w])
       IN  IF r.ok
           THEN /\ video_id' = [video_id EXCEPT ![w] = r.val]
                /\ pc' = [pc EXCEPT ![w] = "CacheLookup"]
                /\ UNCHANGED response
           ELSE /\ Fail(w, r.err)
                /\ UNCHANGED video_id
    /\ UNCHANGED <<env, store, started, url, transcript, metainfo, output,
                   total_videos, log>>

\* existing_data = get_video_from_db(video_id); a hit returns it
CacheLookup(w) ==
    /\ pc[w] = "CacheLookup"
    /\ steps' = [steps EXCEPT ![w] = @ \o <<"CacheLookup">>]
    /\ LET existing_data == get_video_from_db(db, video_id[w])
       IN  IF existing_data # None
           THEN /\ pc' = [pc EXCEPT ![w] = "done"]
                /\ response' = [response EXCEPT ![w] = Http200(existing_data.transcript)]
                /\ log' = log \cup {LogEntry(w, existing_data.transcript, steps'[w])}
           ELSE /\ pc' = [pc EXCEPT ![w] = "FetchTranscript"]
                /\ UNCHANGED <<response, log>>
    /\ UNCHANGED <<env, store, started, locals>>

\* the caption fetch tried again after a failure
FetchTranscript_retry(w, reply) ==
    /\ pc[w] = "FetchTranscript"
    /\ steps' = [steps EXCEPT ![w] = @ \o <<"FetchTranscript">>]
    /\ IF reply.ok
       THEN /\ transcript' = [transcript EXCEPT ![w] = reply.val]
            /\ pc' = [pc EXCEPT ![w] = "FetchMetadata"]
            /\ UNCHANGED response
       ELSE /\ Len(steps[w]) < 4
            /\ UNCHANGED <<transcript, pc, response>>
    /\ UNCHANGED <<env, store, started, url, video_id, metainfo, output,
                   total_videos, log>>

\* transcript = YouTubeTranscriptApi.get_transcript(video_id, ...)
FetchTranscript(w, reply) ==
    /\ pc[w] = "FetchTranscript"
    /\ steps' = [steps EXCEPT ![w] = @ \o <<"FetchTranscript">>]
    /\ IF reply.ok
       THEN /\ transcript' = [transcript EXCEPT ![w] = reply.val]
            /\ pc' = [pc EXCEPT ![w] = "FetchMetadata"]
            /\ UNCHANGED response
       ELSE /\ Fail(w, reply.err)
            /\ UNCHANGED transcript
    /\ UNCHANGED <<env, store, started, url, video_id, metainfo, output,
                   total_videos, log>>

\* metainfo = get_video_description(video_id), then the formatting, the
\* length check and the construction of output
FetchMetadata(w, reply) ==
    /\ pc[w] = "FetchMetadata"
    /\ LET m == get_video_description(video_id[w], config, reply)
           formatted_transcript == format_transcript_with_timestamps(transcript[w])
       IN  IF ~m.ok
           THEN /\ steps' = [steps EXCEPT ![w] = @ \o <<"FetchMetadata">>]
                /\ Fail(w, m.err)
                /\ UNCHANGED <<metainfo, output>>
           ELSE /\ metainfo' = [metainfo EXCEPT ![w] = m.val]
                /\ steps' = [steps EXCEPT ![w] =
                                @ \o <<"FetchMetadata", "Format", "Validate">>]
                /\ IF too_short(formatted_transcript)
                   THEN /\ Fail(w, "Transcript too short!")
                        /\ UNCHANGED output
                   ELSE /\ output' = [output EXCEPT ![w] =
                               "Title: " \o Strip(m.val.title) \o "\n\n"
                               \o formatted_transcript \o "\n" \o END_MARKER]
                        /\ pc' = [pc EXCEPT ![w] = "Persist"]
                        /\ UNCHANGED response
    /\ UNCHANGED <<env, store, started, url, video_id, transcript,
                   total_videos, log>>

\* the persist step storing the transcript without its title header
Persist_notitle(w) ==
    /\ pc[w] = "Persist"
    /\ steps' = [steps EXCEPT ![w] = @ \o <<"Persist">>]
    /\ LET body == From(output[w], Len("Title: " \o Strip(metainfo[w].title) \o "\n\n") + 1)
           r == insert_video_data(db, lastid, now, video_id[w], url[w],
                                  metainfo[w].title, metainfo[w].description, body)
       IN  /\ r.ok
           /\ db' = r.val.rows
           /\ lastid' = r.val.lastid
           /\ now' = now + 1
           /\ written' = (video_id[w] :>
                             [url |-> url[w], title |-> metainfo[w].title,
                              description |-> metainfo[w].description,
                              transcript |-> body]) @@ written
           /\ pc' = [pc EXCEPT ![w] = "done"]
           /\ response' = [response EXCEPT ![w] = Http200(output[w])]
           /\ log' = log \cup {LogEntry(w, output[w], steps'[w])}
    /\ UNCHANGED <<env, started, locals>>

\* insert_video_data(video_id, str(request.url), title, description, output)
\* and the return of the payload
Persist(w) ==
    /\ pc[w] = "Persist"
    /\ steps' = [steps EXCEPT ![w] = @ \o <<"Persist">>]
    /\ LET r == insert_video_data(db, lastid, now, video_id[w], url[w],
                                  metainfo[w].title, metainfo[w].description, output[w])
       IN  IF r.ok
           THEN /\ db' = r.val.rows
                /\ lastid' = r.val.lastid
                /\ now' = now + 1
                /\ written' = (video_id[w] :>
                                  [url |-> url[w], title |-> metainfo[w].title,
                                   description |-> metainfo[w].description,
                                   transcript |-> output[w]]) @@ written
                /\ pc' = [pc EXCEPT ![w] = "done"]
                /\ response' = [response EXCEPT ![w] = Http200(output[w])]
                /\ log' = log \cup {LogEntry(w, output[w], steps'[w])}
           ELSE /\ Fail(w, r.err)
                /\ UNCHANGED <<store, log>>
    /\ UNCHANGED <<env, started, locals>>

Next ==
    \/ \E w \in Workers, u \in ReqURLs : Receive(w, u)
    \/ \E w \in Workers : ExtractId(w)
    \/ \E w \in Workers : CacheLookup(w)
    \/ \E w \in Workers, reply \in TranscriptReplies : FetchTranscript(w, reply)
    \/ \E w \in Workers, reply \in MetaReplies : FetchMetadata(w, reply)
    \/ \E w \in Workers : Persist(w)

Spec == Init /\ [][Next]_vars

(***************************************************************************)
(* The same service with a single worker process at work at a time: the    *)
(* handler is an async function that never awaits, so one event loop runs  *)
(* each request to its end before it takes the next.                       *)
(***************************************************************************)

Quiet == \A w \in Workers : pc[w] \in {"idle", "done"}

NextSeq ==
    \/ \E w \in Workers, u \in ReqURLs : Quiet /\ Receive(w, u)
    \/ \E w \in Workers : ExtractId(w)
    \/ \E w \in Workers : CacheLookup(w)
    \/ \E w \in Workers, reply \in TranscriptReplies : FetchTranscript(w, reply)
    \/ \E w \in Workers, reply \in MetaReplies : FetchMetadata(w, reply)
    \/ \E w \in Workers : Persist(w)

SpecSeq == Init /\ [][NextSeq]_vars

(***************************************************************************)
(* GET /get_database_status.  The handler runs two SELECT statements on    *)
(* one connection with no transaction around them, so each reads the state *)
(* of the table that is committed when it runs.                            *)
(***************************************************************************)

\* GET /get_database_status arrives at worker w
ReceiveStatus(w) ==
    /\ pc[w] \in {"idle", "done"}
    /\ started < MaxRequests
    /\ started' = started + 1
    /\ pc' = [pc EXCEPT ![w] = "CountVideos"]
    /\ url' = [url EXCEPT ![w] = ""]
    /\ video_id' = [video_id EXCEPT ![w] = ""]
    /\ transcript' = [transcript EXCEPT ![w] = <<>>]
    /\ metainfo' = [metainfo EXCEPT ![w] = NoMeta]
    /\ output' = [output EXCEPT ![w] = ""]
    /\ total_videos' = [total_videos EXCEPT ![w] = 0]
    /\ response' = [response EXCEPT ![w] = NoResponse]
    /\ steps' = [steps EXCEPT ![w] = <<>>]
    /\ UNCHANGED <<env, store, log>>

\* total_videos = cursor.fetchone()[0] of SELECT COUNT(*) FROM videos
CountVideos(w) ==
    /\ pc[w] = "CountVideos"
    /\ steps' = [steps EXCEPT ![w] = @ \o <<"CountVideos">>]
    /\ total_videos' = [total_videos EXCEPT ![w] = count_videos(db)]
    /\ pc' = [pc EXCEPT ![w] = "ListVideoIds"]
    /\ UNCHANGED <<env, store, started, url, video_id, transcript, metainfo,
                   output, response, log>>

\* video_ids = [...] of SELECT video_id FROM videos, and the return of
\* DatabaseStatus(total_videos, video_ids)
ListVideoIds(w) ==
    /\ pc[w] = "ListVideoIds"
    /\ steps' = [steps EXCEPT ![w] = @ \o <<"ListVideoIds">>]
    /\ response' = [response EXCEPT ![w] =
                        DatabaseStatus(total_videos[w], select_video_ids(db))]
    /\ pc' = [pc EXCEPT ![w] = "done"]
    /\ UNCHANGED <<env, store, started, locals, log>>

\* both endpoints served by workers that interleave
NextStatus ==
    \/ \E w \in Workers, u \in ReqURLs : Receive(w, u)
    \/ \E w \in Workers : ExtractId(w)
    \/ \E w \in Workers : CacheLookup(w)
    \/ \E w \in Workers, reply \in TranscriptReplies : FetchTranscript(w, reply)
    \/ \E w \in Workers, reply \in MetaReplies : FetchMetadata(w, reply)
    \/ \E w \in Workers : Persist(w)
    \/ \E w \in Workers : ReceiveStatus(w)
    \/ \E w \in Workers : CountVideos(w)
    \/ \E w \in Workers : ListVideoIds(w)

SpecStatus == Init /\ [][NextStatus]_vars

(***************************************************************************)
(* The service as one process over its life: both endpoints, one request   *)
(* at a time, and restarts.  A restart ends the process with whatever it   *)
(* was doing and imports the module again, which reads .env and runs       *)
(* init_db() on the database file as the process before left it.           *)
(***************************************************************************)

MaxRestarts == 1

Restart ==
    /\ restarts < MaxRestarts
    /\ restarts' = restarts + 1
    /\ db' = init_db([videos |-> db]).videos
    /\ pc' = [w \in Workers |-> "idle"]
    /\ url' = [w \in Workers |-> ""]
    /\ video_id' = [w \in Workers |-> ""]
    /\ transcript' = [w \in Workers |-> <<>>]
    /\ metainfo' = [w \in Workers |-> NoMeta]
    /\ output' = [w \in Workers |-> ""]
    /\ total_videos' = [w \in Workers |-> 0]
    /\ response' = [w \in Workers |-> NoResponse]
    /\ steps' = [w \in Workers |-> <<>>]
    /\ config' \in Configs
    /\ UNCHANGED <<call, lastid, now, written, started, log>>

NextService ==
    \/ \E w \in Workers, u \in ReqURLs : Quiet /\ Receive(w, u)
    \/ \E w \in Workers : ExtractId(w)
    \/ \E w \in Workers : CacheLookup(w)
    \/ \E w \in Workers, reply \in TranscriptReplies : FetchTranscript(w, reply)
    \/ \E w \in Workers, reply \in MetaReplies : FetchMetadata(w, reply)
    \/ \E w \in Workers : Persist(w)
    \/ \E w \in Workers : Quiet /\ ReceiveStatus(w)
    \/ \E w \in Workers : CountVideos(w)
    \/ \E w \in Workers : ListVideoIds(w)
    \/ Restart

SpecService == Init /\ [][NextService]_vars

(***************************************************************************)
(* get_video_id on its own, called on URLs of every shape.  A URL is given *)
(* by its components, as the HttpUrl of the request holds them, each with  *)
(* what is expected of it; str(request.url) puts them together.            *)
(***************************************************************************)

Schemes == {"http", "https"}

Hosts ==
    { [host |-> "youtu.be",             kind |-> "short"],
      [host |-> "www.youtu.be",         kind |-> "short"],
      [host |-> "youtube.com",          kind |-> "canonical"],
      [host |-> "www.youtube.com",      kind |-> "canonical"],
      [host |-> "WWW.YouTube.com",      kind |-> "canonical"],
      [host |-> "m.youtube.com",        kind |-> "other"],
      [host |-> "youtu.be.example.org", kind |-> "other"],
      [host |-> "vimeo.com",            kind |-> "other"] }

Ports == {"", ":8080"}

\* stripped: the path without its leading slashes; seg: the path segment at
\* index 2 of a path that begins with /embed/ or /v/
Paths ==
    { [path |-> "",                    kind |-> "other",   stripped |-> "",         seg |-> ""],
      [path |-> "/",                   kind |-> "other",   stripped |-> "",         seg |-> ""],
      [path |-> "/abc123",             kind |-> "other",   stripped |-> "abc123",   seg |-> ""],
      [path |-> "//abc123",            kind |-> "other",   stripped |-> "abc123",   seg |-> ""],
      [path |-> "/watch",              kind |-> "watch",   stripped |-> "watch",    seg |-> ""],
      [path |-> "/watch/",             kind |-> "other",   stripped |-> "watch/",   seg |-> ""],
      [path |-> "/embed",              kind |-> "other",   stripped |-> "embed",    seg |-> ""],
      [path |-> "/embed/abc123",       kind |-> "segment", stripped |-> "embed/abc123", seg |-> "abc123"],
      [path |-> "/embed/abc123/extra", kind |-> "segment", stripped |-> "embed/abc123/extra", seg |-> "abc123"],
      [path |-> "/embed/",             kind |-> "segment", stripped |-> "embed/",   seg |-> ""],
      [path |-> "/v/aQ4yQXeB1Ss",      kind |-> "segment", stripped |-> "v/aQ4yQXeB1Ss", seg |-> "aQ4yQXeB1Ss"],
      [path |-> "/vi/abc123",          kind |-> "other",   stripped |-> "vi/abc123", seg |-> ""],
      [path |-> "/playlist",           kind |-> "other",   stripped |-> "playlist", seg |-> ""] }

\* has: the query has a value for parameter v; v: the first such value
Queries ==
    { [query |-> "",                   has |-> FALSE, v |-> ""],
      [query |-> "v=abc123",           has |-> TRUE,  v |-> "abc123"],
      [query |-> "t=5&v=abc123&v=zzz", has |-> TRUE,  v |-> "abc123"],
      [query |-> "t=5",                has |-> FALSE, v |-> ""],
      [query |-> "vv=abc123&list=v",   has |-> FALSE, v |-> ""],
      [query |-> "v=",                 has |-> FALSE, v |-> ""],
      [query |-> "v=a+b",              has |-> TRUE,  v |-> "a b"] }

Fragments == {"", "t10"}

TestURLs ==
    [scheme : Schemes, host : Hosts, port : Ports, path : Paths, query : Queries,
     fragment : Fragments]

\* str(request.url)
UrlString(c) ==
    c.scheme \o "://" \o c.host.host \o c.port \o c.path.path
    \o (IF c.query.query = "" THEN "" ELSE "?" \o c.query.query)
    \o (IF c.fragment = "" THEN "" ELSE "#" \o c.fragment)

IdInit ==
    /\ InitHandler
    /\ \E c \in TestURLs :
          call = [fn |-> "get_video_id", arg |-> c, returned |-> FALSE, result |-> None]

\* the call returns or raises
GetVideoId ==
    /\ call.fn = "get_video_id"
    /\ ~call.returned
    /\ call' = [call EXCEPT !.returned = TRUE,
                            !.result = get_video_id(UrlString(call.arg))]
    /\ UNCHANGED <<config, store, started, pc, locals, response, steps, log,
                   restarts>>

NextId == GetVideoId

SpecId == IdInit /\ [][NextId]_vars

(***************************************************************************)
(* The store on its own: insert_video_data and get_video_from_db called in *)
(* any order on a few identifiers and records.                             *)
(***************************************************************************)

MaxUpserts == 3

StoreIds == {"abc123", "aQ4yQXeB1Ss"}

LookupIds == StoreIds \cup {"zzz"}

StoreRecords ==
    { [url |-> "https://youtu.be/abc123", title |-> "T1", description |-> "D1",
       transcript |-> "Title: T1\n\n[00:00:00] one"],
      [url |-> "https://www.youtube.com/watch?v=abc123", title |-> "T2",
       description |-> "D2", transcript |-> "Title: T2\n\n[00:00:00] two"],
      [url |-> "https://youtu.be/abc123", title |-> "NaN", description |-> "NaN",
       transcript |-> "Title: NaN\n\n[00:00:00] one"] }

StoreInit ==
    /\ InitHandler
    /\ call = [fn |-> "open", arg |-> "", result |-> None]

\* insert_video_data(vid, rec.url, rec.title, rec.description, rec.transcript)
Upsert(vid, rec) ==
    /\ lastid < MaxUpserts
    /\ LET r == insert_video_data(db, lastid, now, vid, rec.url, rec.title,
                                  rec.description, rec.transcript)
       IN  /\ r.ok
           /\ db' = r.val.rows
           /\ lastid' = r.val.lastid
           /\ now' = now + 1
           /\ written' = (vid :> rec) @@ written
           /\ call' = [fn |-> "insert_video_data", arg |-> vid, result |-> None]
    /\ UNCHANGED <<config, started, pc, locals, response, steps, log, restarts>>

\* get_video_from_db(vid)
Lookup(vid) ==
    /\ call' = [fn |-> "get_video_from_db", arg |-> vid,
                result |-> get_video_from_db(db, vid)]
    /\ UNCHANGED <<config, store, started, pc, locals, response, steps, log,
                   restarts>>

\* get_database_status() run from its first statement to its return with
\* no other call in between
Status ==
    /\ call' = [fn |-> "get_database_status", arg |-> "",
                result |-> DatabaseStatus(count_videos(db), select_video_ids(db))]
    /\ UNCHANGED <<config, store, started, pc, locals, response, steps, log,
                   restarts>>

NextStore ==
    \/ \E vid \in StoreIds, rec \in StoreRecords : Upsert(vid, rec)
    \/ \E vid \in LookupIds : Lookup(vid)
    \/ Status

SpecStore == StoreInit /\ [][NextStore]_vars

(***************************************************************************)
(* format_transcript_with_timestamps on its own, called on sequences of    *)
(* caption fragments in any order.  A start time is given in thousandths   *)
(* of a second, with the whole seconds it holds, their split into hours,   *)
(* minutes and seconds, and the timestamp expected of it.                  *)
(***************************************************************************)

MaxFragments == 2

StartTimes ==
    { [start |-> 0,         secs |-> 0,      h |-> 0,   m |-> 0,  s |-> 0,  stamp |-> "00:00:00"],
      [start |-> 59999,     secs |-> 59,     h |-> 0,   m |-> 0,  s |-> 59, stamp |-> "00:00:59"],
      [start |-> 65000,     secs |-> 65,     h |-> 0,   m |-> 1,  s |-> 5,  stamp |-> "00:01:05"],
      [start |-> 3599000,   secs |-> 3599,   h |-> 0,   m |-> 59, s |-> 59, stamp |-> "00:59:59"],
      [start |-> 3725250,   secs |-> 3725,   h |-> 1,   m |-> 2,  s |-> 5,  stamp |-> "01:02:05"],
      [start |-> 36610000,  secs |-> 36610,  h |-> 10,  m |-> 10, s |-> 10, stamp |-> "10:10:10"],
      [start |-> 86400000,  secs |-> 86400,  h |-> 24,  m |-> 0,  s |-> 0,  stamp |-> "24:00:00"],
      [start |-> 360001000, secs |-> 360001, h |-> 100, m |-> 0,  s |-> 1,  stamp |-> "100:00:01"] }

Texts == {"Hello", "two\nlines"}

\* a caption fragment {'start': ..., 'text': ...} with what is expected of it
CaptionFragments ==
    {[start |-> t.start, text |-> x, time |-> t] : t \in StartTimes, x \in Texts}

FmtInputs ==
    UNION {[1..n -> CaptionFragments] : n \in 0..MaxFragments}

FmtInit ==
    /\ InitHandler
    /\ \E t \in FmtInputs :
          call = [fn |-> "format_transcript_with_timestamps", arg |-> t,
                  returned |-> FALSE, result |-> ""]

\* the call returns
Format ==
    /\ call.fn = "format_transcript_with_timestamps"
    /\ ~call.returned
    /\ call' = [call EXCEPT !.returned = TRUE,
                            !.result = format_transcript_with_timestamps(call.arg)]
    /\ UNCHANGED <<config, store, started, pc, locals, response, steps, log,
                   restarts>>

NextFmt == Format

SpecFmt == FmtInit /\ [][NextFmt]_vars

(***************************************************************************)
(* Properties.                                                             *)
(***************************************************************************)

\* C1: when the cache lookup of a request finds a record for its identifier,
\* that step ends the request with the record's stored transcript as the
\* payload; the request has run no fetch and no length check (its steps are
\* ExtractId and CacheLookup only) and the store is as it was.
C1_CacheHitShortCircuits ==
    [][\A w \in Workers :
          (/\ pc[w] = "CacheLookup"
           /\ pc'[w] # "CacheLookup"
           /\ \E r \in db : r.video_id = video_id[w])
          => /\ pc'[w] = "done"
             /\ \E r \in db : /\ r.video_id = video_id[w]
                              /\ response'[w] = [status |-> 200, transcript |-> r.transcript]
             /\ steps'[w] = <<"ExtractId", "CacheLookup">>
             /\ db' = db
             /\ lastid' = lastid
             /\ written' = written]_vars

\* a request has been served from the cache
C1_Witness ==
    \E w \in Workers :
        /\ pc[w] = "done"
        /\ steps[w] = <<"ExtractId", "CacheLookup">>
        /\ \E r \in db : /\ r.video_id = video_id[w]
                         /\ response[w] = [status |-> 200, transcript |-> r.transcript]

\* C2: with requests submitted one after the other, when a request for a URL
\* has succeeded on a cache miss, every other successful request for the same
\* URL returns the same text and runs ExtractId and CacheLookup only (no
\* caption fetch, no metadata fetch).
C2_Idempotence ==
    \A e1 \in log : \A e2 \in log :
        (/\ e1.url = e2.url
         /\ e2 # e1
         /\ \E i \in DOMAIN e1.steps : e1.steps[i] = "FetchTranscript")
        => /\ e2.text = e1.text
           /\ e2.steps = <<"ExtractId", "CacheLookup">>

\* a URL has been served on a miss and then again
C2_Witness ==
    \E e1 \in log : \E e2 \in log :
        /\ e1.url = e2.url
        /\ e2 # e1
        /\ \E i \in DOMAIN e1.steps : e1.steps[i] = "FetchTranscript"
        /\ e2.text = e1.text

\* C3: a request that reaches the length check fails there, without a write,
\* when the formatted transcript has at most 500 characters (500 included),
\* and goes on to persist and succeed when it has more; the store changes
\* only in the persist step, and the transcript of every record of the store
\* wraps a formatted body of more than 500 characters.
C3_PersistIffLongEnough ==
    /\ [](\A w \in Workers :
            (\E i \in DOMAIN steps[w] : steps[w][i] = "Validate")
            => LET n == Len(format_transcript_with_timestamps(transcript[w]))
                   persisted == \E i \in DOMAIN steps[w] : steps[w][i] = "Persist"
               IN  /\ n <= 500 => /\ pc[w] = "done"
                                  /\ response[w].status = 500
                                  /\ ~persisted
                   /\ n > 500 => \/ pc[w] = "Persist" /\ ~persisted
                                 \/ /\ pc[w] = "done"
                                    /\ persisted
                                    /\ response[w].status = 200)
    /\ [](\A r \in db :
            Len(r.transcript) - Len("Title: " \o Strip(r.title) \o "\n\n")
                              - Len("\nEND_OF_TRANSCRIPT") > 500)
    /\ [][db' # db => \E w \in Workers : pc[w] = "Persist" /\ pc'[w] = "done"]_vars

\* both sides of the boundary have happened: a body of exactly 500 characters
\* was refused and one of 501 is stored
C3_Witness ==
    /\ \E w \in Workers :
          /\ pc[w] = "done"
          /\ response[w].status = 500
          /\ \E i \in DOMAIN steps[w] : steps[w][i] = "Validate"
          /\ Len(format_transcript_with_timestamps(transcript[w])) = 500
    /\ \E r \in db :
          Len(r.transcript) - Len("Title: " \o Strip(r.title) \o "\n\n")
                            - Len("\nEND_OF_TRANSCRIPT") = 501

\* C4: the table never holds two rows with the same video_id, and a write
\* for an identifier that has a row leaves the number of rows as it was.
C4_OneRowPerVideoId ==
    /\ [](\A r1 \in db : \A r2 \in db : r1.video_id = r2.video_id => r1 = r2)
    /\ [][\A w \in Workers :
            (/\ pc[w] = "Persist"
             /\ pc'[w] = "done"
             /\ \E r \in db : r.video_id = video_id[w])
            => Cardinality(db') = Cardinality(db)]_vars

\* an identifier has been written twice
C4_Witness ==
    /\ lastid >= 2
    /\ \E r \in db : r.id >= 2 /\ Cardinality({o \in db : o.video_id = r.video_id}) = 1
    /\ Cardinality(db) < lastid

\* C5: a request whose transcript fetch raised or returned no caption never
\* reaches the persist step, ends with a failure, and none of its steps
\* changes the store.
C5_NoTranscriptNoRecord ==
    /\ [](\A w \in Workers :
            (/\ \E i \in DOMAIN steps[w] : steps[w][i] = "FetchTranscript"
             /\ transcript[w] = <<>>)
            => /\ pc[w] \in {"FetchMetadata", "done"}
               /\ pc[w] = "done" => response[w].status = 500
               /\ \A i \in DOMAIN steps[w] : steps[w][i] # "Persist")
    /\ [][\A w \in Workers :
            (/\ \E i \in DOMAIN steps[w] : steps[w][i] = "FetchTranscript"
             /\ transcript[w] = <<>>
             /\ pc[w] # "done"
             /\ pc'[w] # pc[w])
            => db' = db /\ lastid' = lastid /\ written' = written]_vars

\* a request whose fetch returned an empty caption sequence has failed at the
\* length check, and one whose fetch raised has failed at the fetch
C5_Witness ==
    /\ \E w \in Workers :
          /\ pc[w] = "done"
          /\ transcript[w] = <<>>
          /\ steps[w][Len(steps[w])] = "Validate"
          /\ response[w].status = 500
    /\ \E w \in Workers :
          /\ pc[w] = "done"
          /\ Len(steps[w]) > 0
          /\ steps[w][Len(steps[w])] = "FetchTranscript"
          /\ response[w].status = 500

\* C6: the metadata step never makes a request fail: a request that has run
\* it goes on to the length check, and succeeds and persists when the
\* formatted transcript has more than 500 characters.
C6_MetadataNeverFails ==
    \A w \in Workers :
        (/\ pc[w] = "done"
         /\ \E i \in DOMAIN steps[w] : steps[w][i] = "FetchMetadata")
        => /\ \E i \in DOMAIN steps[w] : steps[w][i] = "Validate"
           /\ Len(format_transcript_with_timestamps(transcript[w])) > 500
              => /\ response[w].status = 200
                 /\ \E i \in DOMAIN steps[w] : steps[w][i] = "Persist"

\* C7, as claimed: the persist step stores the formatted body followed by a
\* newline and the end marker, without the title header, and returns
\* "Title: <title>", a blank line and that stored transcript.
C7_StoredWithoutTitle ==
    [][\A w \in Workers :
          (pc[w] = "Persist" /\ pc'[w] = "done")
          => \E r \in db' :
                /\ r.video_id = video_id[w]
                /\ r.transcript = format_transcript_with_timestamps(transcript[w])
                                  \o "\nEND_OF_TRANSCRIPT"
                /\ response'[w] = [status |-> 200,
                                   transcript |-> "Title: " \o Strip(metainfo[w].title)
                                                  \o "\n\n" \o r.transcript]]_vars

\* C7, amended: the persist step stores, as the transcript of the record,
\* the very payload it returns: "Title: <title stripped>", a blank line, the
\* formatted body, a newline and the end marker; the record has the
\* submitted URL, the identifier and the title and description of the
\* metadata step.
C7_StoredEqualsPayload ==
    [][\A w \in Workers :
          (pc[w] = "Persist" /\ pc'[w] = "done")
          => \E r \in db' :
                /\ r.video_id = video_id[w]
                /\ r.transcript = "Title: " \o Strip(metainfo[w].title) \o "\n\n"
                                  \o format_transcript_with_timestamps(transcript[w])
                                  \o "\nEND_OF_TRANSCRIPT"
                /\ response'[w] = [status |-> 200, transcript |-> r.transcript]
                /\ r.url = url[w]
                /\ r.title = metainfo[w].title
                /\ r.description = metainfo[w].description]_vars

\* a record with a title that has surrounding blanks has been stored and
\* its transcript returned
C7_Witness ==
    \E w \in Workers : \E r \in db :
        /\ pc[w] = "done"
        /\ steps[w][Len(steps[w])] = "Persist"
        /\ r.video_id = video_id[w]
        /\ r.title = " A Title "
        /\ response[w] = [status |-> 200, transcript |-> r.transcript]

\* C8: when two requests for one identifier have both missed the cache and
\* both reached the write, both succeed, and the table holds exactly one row
\* for the identifier, whose url, title, description and transcript are
\* those of the last write.
C8_ConcurrentUpserts ==
    \A w1 \in Workers : \A w2 \in Workers :
        (/\ w1 # w2
         /\ video_id[w1] = video_id[w2]
         /\ pc[w1] = "done" /\ pc[w2] = "done"
         /\ \E i \in DOMAIN steps[w1] : steps[w1][i] = "Persist"
         /\ \E i \in DOMAIN steps[w2] : steps[w2][i] = "Persist")
        => /\ response[w1] = [status |-> 200, transcript |-> output[w1]]
           /\ response[w2] = [status |-> 200, transcript |-> output[w2]]
           /\ Cardinality({r \in db : r.video_id = video_id[w1]}) = 1
           /\ \A r \in db :
                 r.video_id = video_id[w1]
                 => /\ [url |-> r.url, title |-> r.title,
                        description |-> r.description,
                        transcript |-> r.transcript] = written[video_id[w1]]
                    /\ \E w \in {w1, w2} :
                          /\ r.url = url[w]
                          /\ r.title = metainfo[w].title
                          /\ r.description = metainfo[w].description
                          /\ r.transcript = output[w]

\* two requests for one identifier, submitted with different URLs, have both
\* written, with different titles and different transcripts
C8_Witness ==
    \E w1 \in Workers : \E w2 \in Workers :
        /\ w1 # w2
        /\ video_id[w1] = video_id[w2]
        /\ pc[w1] = "done" /\ pc[w2] = "done"
        /\ steps[w1][Len(steps[w1])] = "Persist"
        /\ steps[w2][Len(steps[w2])] = "Persist"
        /\ url[w1] # url[w2]
        /\ metainfo[w1].title # metainfo[w2].title
        /\ output[w1] # output[w2]

\* C9: get_video_id returns, for a short-link host, the path without its
\* leading slashes; for a canonical host and path /watch, the first value of
\* parameter v, and fails when there is none; for a canonical host and a
\* path that begins with /embed/ or /v/, the path segment at index 2; and
\* raises "Invalid YouTube URL" for every other host or path.
C9_VideoIdByShape ==
    (call.fn = "get_video_id" /\ call.returned)
    => LET c == call.arg
       IN  IF c.host.kind = "short"
           THEN call.result = [ok |-> TRUE, val |-> c.path.stripped]
           ELSE IF c.host.kind = "canonical" /\ c.path.kind = "watch"
           THEN IF c.query.has
                THEN call.result = [ok |-> TRUE, val |-> c.query.v]
                ELSE ~call.result.ok
           ELSE IF c.host.kind = "canonical" /\ c.path.kind = "segment"
           THEN call.result = [ok |-> TRUE, val |-> c.path.seg]
           ELSE call.result = [ok |-> FALSE, err |-> "Invalid YouTube URL"]

\* an /embed/ URL with a port, a query and a fragment has given its segment
C9_Witness ==
    /\ call.fn = "get_video_id"
    /\ call.returned
    /\ call.arg.host.host = "WWW.YouTube.com"
    /\ call.arg.port = ":8080"
    /\ call.arg.path.path = "/embed/abc123/extra"
    /\ call.arg.query.query = "t=5&v=abc123&v=zzz"
    /\ call.arg.fragment = "t10"
    /\ call.result = [ok |-> TRUE, val |-> "abc123"]

\* C10: a request whose URL is not a YouTube URL ends at the extraction step
\* with a failure: it runs no other step (no lookup, no fetch, no write) and
\* the store is as it was.
C10_BadUrlNoSideEffects ==
    [][\A w \in Workers :
          (/\ pc[w] = "ExtractId"
           /\ pc'[w] # "ExtractId"
           /\ url[w] = "https://vimeo.com/abc123")
          => /\ pc'[w] = "done"
             /\ steps'[w] = <<"ExtractId">>
             /\ response'[w] = [status |-> 500,
                                detail |-> "Failed to obtain transcript: Invalid YouTube URL"]
             /\ db' = db /\ lastid' = lastid /\ written' = written /\ log' = log]_vars

\* a request with a URL of another site has failed while the store holds a
\* record
C10_Witness ==
    \E w \in Workers :
        /\ pc[w] = "done"
        /\ url[w] = "https://vimeo.com/abc123"
        /\ steps[w] = <<"ExtractId">>
        /\ response[w].status = 500
        /\ db # {}

C12_StoreIsMap ==
    /\ call.fn = "get_video_from_db"
         => call.result =
               IF call.arg \in DOMAIN written
               THEN [title |-> written[call.arg].title,
                     description |-> written[call.arg].description,
                     transcript |-> written[call.arg].transcript]
               ELSE [none |-> TRUE]
    /\ {r.video_id : r \in db} = DOMAIN written
    /\ Cardinality(db) = Cardinality(DOMAIN written)

\* after three upserts, two of them for one identifier, the lookup of that
\* identifier has returned the record of the later one
C12_Witness ==
    /\ call.fn = "get_video_from_db"
    /\ call.arg = "abc123"
    /\ lastid = 3
    /\ Cardinality(db) = 2
    /\ call.result.title = "T2"
    /\ \E r \in db : r.video_id = "abc123" /\ r.id = 3 /\ r.title = "T2"
    /\ \E r \in db : r.video_id = "aQ4yQXeB1Ss" /\ r.id = 2

\* C13: with no request in progress, after any sequence of upserts, the
\* response of GET /get_database_status is a 200 whose total_videos is the
\* number of distinct identifiers upserted and whose video_ids holds those
\* identifiers, each once, and nothing else.
C13_StatusSummary ==
    call.fn = "get_database_status"
    => /\ call.result.status = 200
       /\ call.result.total_videos = Cardinality(DOMAIN written)
       /\ Len(call.result.video_ids) = Cardinality(DOMAIN written)
       /\ {call.result.video_ids[i] : i \in 1..Len(call.result.video_ids)}
             = DOMAIN written

\* the status after three upserts, two of them for one identifier
C13_Witness ==
    /\ call.fn = "get_database_status"
    /\ lastid = 3
    /\ call.result.total_videos = 2
    /\ call.result.video_ids = <<"aQ4yQXeB1Ss", "abc123">>

\* C14: a restart of the service leaves the store as it was: init_db() on a
\* table that holds records removes and changes no row, and every lookup
\* gives after the restart what it gave before.  So a request for an
\* identifier that has been persisted, before a restart or after it, ends at
\* the cache lookup with the stored transcript.
C14_RestartKeepsStore ==
    [][/\ restarts' # restarts
          => /\ db' = db
             /\ lastid' = lastid
             /\ \A vid \in DOMAIN written :
                   /\ get_video_from_db(db', vid) # None
                   /\ get_video_from_db(db', vid) = get_video_from_db(db, vid)
       /\ \A w \in Workers :
             (/\ pc[w] = "CacheLookup"
              /\ pc'[w] # "CacheLookup"
              /\ restarts' = restarts
              /\ video_id[w] \in DOMAIN written)
             => /\ pc'[w] = "done"
                /\ steps'[w] = <<"ExtractId", "CacheLookup">>
                /\ response'[w] = [status |-> 200,
                                   transcript |-> written[video_id[w]].transcript]]_vars

\* after one write and a restart, a second request has been served from the
\* cache, and no other worker has run since the restart
C14_Witness ==
    /\ restarts = 1
    /\ started = 2
    /\ Cardinality(db) = 1
    /\ \E w \in Workers :
          /\ pc[w] = "done"
          /\ steps[w] = <<"ExtractId", "CacheLookup">>
          /\ response[w].status = 200
          /\ \A o \in Workers \ {w} : pc[o] = "idle" /\ steps[o] = <<>>

\* C15: no step removes an identifier from the store: the set of stored
\* identifiers only grows.  And once a request for an identifier has been
\* answered with success, the cache lookup of every request for that
\* identifier that runs afterwards is a hit: the request ends there with a
\* 200, having run no fetch.
C15_StoreOnlyGrows ==
    [][/\ {r.video_id : r \in db} \subseteq {r.video_id : r \in db'}
       /\ \A w \in Workers :
             (/\ pc[w] = "CacheLookup"
              /\ pc'[w] # "CacheLookup"
              /\ \E e \in log : e.video_id = video_id[w])
             => /\ pc'[w] = "done"
                /\ response'[w].status = 200
                /\ steps'[w] = <<"ExtractId", "CacheLookup">>
                /\ transcript'[w] = <<>>
                /\ metainfo'[w] = NoMeta]_vars

\* the store holds two identifiers, the second one written by a request
\* that started after the first had been answered
C15_Witness ==
    /\ {r.video_id : r \in db} = {"abc123", "aQ4yQXeB1Ss"}
    /\ \E w \in Workers :
          /\ pc[w] = "done"
          /\ steps[w][Len(steps[w])] = "Persist"
          /\ \E e \in log : e.video_id # video_id[w]

\* C16: the steps of a request are a beginning of the sequence ExtractId,
\* CacheLookup, FetchTranscript, FetchMetadata, Format, Validate, Persist,
\* so each step runs at most once, in that order, and none is run again
\* after a failure.  A request that has ended has one response, a 200 or a
\* 500, which no later step changes; a request still running has none.  The
\* store is written only by the Persist step of a request that has run all
\* the steps before it, and that step ends the request with a 200.
C16_StepOrder ==
    [][\A w \in Workers :
          LET Full == <<"ExtractId", "CacheLookup", "FetchTranscript",
                        "FetchMetadata", "Format", "Validate", "Persist">>
          IN  /\ \E n \in 0..7 : steps'[w] = SubSeq(Full, 1, n)
              /\ Len(steps'[w]) >= Len(steps[w]) \/ pc'[w] = "ExtractId"
              /\ pc'[w] = "done" <=> response'[w].status \in {200, 500}
              /\ pc'[w] # "done" => response'[w] = [status |-> 0]
              /\ (pc[w] = "done" /\ pc'[w] = "done") => response'[w] = response[w]
              /\ (db' # db \/ lastid' # lastid \/ written' # written)
                    => \E v \in Workers :
                          /\ pc[v] = "Persist"
                          /\ steps[v] = SubSeq(Full, 1, 6)
                          /\ steps'[v] = Full
                          /\ pc'[v] = "done"
                          /\ response'[v].status = 200
                          /\ Cardinality(db' \ db) = 1
                          /\ lastid' = lastid + 1]_vars

\* one request has run every step and written; another has ended at the
\* caption fetch
C16_Witness ==
    \E w1 \in Workers : \E w2 \in Workers :
        /\ pc[w1] = "done" /\ pc[w2] = "done"
        /\ steps[w1] = <<"ExtractId", "CacheLookup", "FetchTranscript",
                         "FetchMetadata", "Format", "Validate", "Persist">>
        /\ steps[w2] = <<"ExtractId", "CacheLookup", "FetchTranscript">>
        /\ response[w1].status = 200
        /\ response[w2].status = 500
        /\ lastid = 1

\* C17: format_transcript_with_timestamps renders each fragment as
\* "[HH:MM:SS] " followed by its text, where, for a start time that holds
\* secs whole seconds, HH is secs div 3600 (24 hours and more are not
\* wrapped), MM is (secs mod 3600) div 60 and SS is secs mod 60, each written
\* with two digits at least; the result is these renderings, one for each
\* fragment, in the order of the input, with a newline between one and the
\* next and nothing else.
C17_Format ==
    (call.fn = "format_transcript_with_timestamps" /\ call.returned)
    => LET t == call.arg
           L(i) == "[" \o t[i].time.stamp \o "] " \o t[i].text
       IN  /\ \A i \in 1..Len(t) :
                 /\ t[i].time.secs = t[i].start \div 1000
                 /\ t[i].time.h = t[i].time.secs \div 3600
                 /\ t[i].time.m = (t[i].time.secs % 3600) \div 60
                 /\ t[i].time.s = t[i].time.secs % 60
           /\ Len(t) = 0 => call.result = ""
           /\ Len(t) = 1 => call.result = L(1)
           /\ Len(t) = 2 => call.result = L(1) \o "\n" \o L(2)
           /\ Len(t) = 3 => call.result = L(1) \o "\n" \o L(2) \o "\n" \o L(3)

\* two fragments given with the later one first, one of them at more than
\* 24 hours, have been rendered
C17_Witness ==
    /\ call.fn = "format_transcript_with_timestamps"
    /\ call.returned
    /\ Len(call.arg) = 2
    /\ call.arg[1].start = 360001000
    /\ call.arg[2].start = 3725250
    /\ call.result = "[100:00:01] Hello\n[01:02:05] Hello"

\* C18: in every response of GET /get_database_status, total_videos is the
\* number of entries of video_ids, also when the workers that serve
\* POST /get_transcript/ write to the store while the status request runs.
C18_StatusConsistent ==
    \A w \in Workers :
        (pc[w] = "done" /\ steps[w] = <<"CountVideos", "ListVideoIds">>)
        => response[w].total_videos = Len(response[w].video_ids)

\* C19, as claimed: when no request is in progress, every successful
\* response for an identifier carries the transcript of the record the
\* store holds for that identifier (so all of them carry the same text).
C19_SameTextAlways ==
    Quiet
    => \A e \in log : \A r \in db :
          r.video_id = e.video_id => e.text = r.transcript

\* C19, amended: every successful response for an identifier carries the
\* text some request that missed the cache built and wrote for it, and the
\* record in the store holds one of those texts.  When no more than one
\* response for the identifier came from a request that missed the cache,
\* all the successful responses for it carry the same text, which is the
\* transcript of the stored record.
C19_SameTextUnlessOverlap ==
    LET Miss(e) == \E i \in DOMAIN e.steps : e.steps[i] = "Persist"
    IN  /\ \A e \in log :
              \E m \in log : Miss(m) /\ m.video_id = e.video_id /\ m.text = e.text
        /\ \A e \in log : \E r \in db : r.video_id = e.video_id
        /\ \A r \in db :
              \E m \in log : Miss(m) /\ m.video_id = r.video_id /\ m.text = r.transcript
        /\ \A e \in log :
              Cardinality({m \in log : Miss(m) /\ m.video_id = e.video_id}) <= 1
              => \A r \in db : r.video_id = e.video_id => e.text = r.transcript

\* two overlapping requests for one identifier have both missed the cache
\* and returned different texts; the store holds the text of one of them
C19_Witness ==
    /\ Quiet
    /\ \E e1 \in log : \E e2 \in log :
          /\ e1.video_id = e2.video_id
          /\ e1.text # e2.text
          /\ \E r \in db : r.video_id = e1.video_id /\ r.transcript = e2.text

\* C20: get_video_id never returns the empty string: for every URL, also a
\* short link with an empty path or the path "/" and an /embed/ or /v/ path
\* with nothing after the prefix, it returns a string that is not empty or
\* it raises.
C20_NeverEmptyId ==
    (call.fn = "get_video_id" /\ call.returned /\ call.result.ok)
    => call.result.val # ""

====
